---- MODULE Spec2Model ----
(***************************************************************************)
(* Model of the M-Pesa STK-push backend (src/index.js, the server.js part, *)
(* lines 202-445): the process-wide token cache, the /token, /stkpush and  *)
(* /callbackurl handlers and the Transaction collection they write to.     *)
(*                                                                         *)
(* Every handler is an async function; it runs without interruption up to  *)
(* its next await (an outbound gateway call or a store write) and is       *)
(* resumed by the completion of that call.  One action models one such     *)
(* run-to-completion step.                                                 *)
(*                                                                         *)
(* The first version of the server (lines 1-200) is modelled as far as its *)
(* callback handler and sanitizeXml go.                                    *)
(***************************************************************************)
EXTENDS Integers, Sequences, FiniteSets, TLC

VARIABLES
    clock,       \* Date.now(), in milliseconds
    tokenCache,  \* let tokenCache = { token, expiresAt }
    store,       \* the Transaction collection, in insertion order
    reqs,        \* the handler invocations: kind, position and locals
    resp,        \* what each invocation has sent with res.json
    gateway,     \* what the gateway has been asked: exchanges, pushes
    ticks        \* how often the clock has advanced

vars == <<clock, tokenCache, store, reqs, resp, gateway, ticks>>

----------------------------------------------------------------------------
(* Bounds of the model.                                                    *)

\* the number of handler invocations in one behaviour
MaxReqs == 2

\* the number of times the clock advances in one behaviour
MaxTicks == 1

ReqIds == 1..MaxReqs

----------------------------------------------------------------------------
(* JavaScript values: undefined, null, numbers and strings.  A string is   *)
(* the sequence of its characters.                                         *)

Undef == [t |-> "undef", n |-> 0, s |-> <<>>]

Null == [t |-> "null", n |-> 0, s |-> <<>>]

Num(n) == [t |-> "num", n |-> n, s |-> <<>>]

Str(s) == [t |-> "str", n |-> 0, s |-> s]

\* ToBoolean: undefined, null, 0 and "" are falsy
Truthy(v) ==
    CASE v.t = "num" -> v.n # 0
      [] v.t = "str" -> v.s # <<>>
      [] OTHER -> FALSE

\* a || b
OrElse(a, b) == IF Truthy(a) THEN a ELSE b

Digits == <<"0", "1", "2", "3", "4", "5", "6", "7", "8", "9">>

IsDigit(c) == \E i \in 1..10 : Digits[i] = c

DigitVal(c) == (CHOOSE i \in 1..10 : Digits[i] = c) - 1

AllDigits(s) == \A i \in 1..Len(s) : IsDigit(s[i])

RECURSIVE NatToChars(_)
\* Number.prototype.toString for a non-negative integer
NatToChars(n) ==
    IF n < 10 THEN <<Digits[n + 1]>>
    ELSE NatToChars(n \div 10) \o <<Digits[(n % 10) + 1]>>

\* Number.prototype.toString for an integer
NumToChars(n) == IF n < 0 THEN <<"-">> \o NatToChars(0 - n) ELSE NatToChars(n)

RECURSIVE CharsToNat(_)
\* the number a string of decimal digits denotes
CharsToNat(s) ==
    IF s = <<>> THEN 0
    ELSE 10 * CharsToNat(SubSeq(s, 1, Len(s) - 1)) + DigitVal(s[Len(s)])

\* value.toString()
ToStringJS(v) ==
    CASE v.t = "num" -> NumToChars(v.n)
      [] v.t = "str" -> v.s
      [] OTHER -> <<>>

StartsWith(s, p) == Len(s) >= Len(p) /\ SubSeq(s, 1, Len(p)) = p

RECURSIVE TrimLeft(_)
TrimLeft(s) == IF s # <<>> /\ Head(s) = " " THEN TrimLeft(Tail(s)) ELSE s

RECURSIVE TrimRight(_)
TrimRight(s) ==
    IF s # <<>> /\ s[Len(s)] = " " THEN TrimRight(SubSeq(s, 1, Len(s) - 1)) ELSE s

\* String.prototype.trim
Trim(s) == TrimRight(TrimLeft(s))

----------------------------------------------------------------------------
(* Helpers of the server.                                                  *)

\* a normalizer that takes every input for the local form 0XXXXXXXXX
normalizePhoneLocalOnly(input) ==
    IF ~Truthy(input) THEN <<>>
    ELSE <<"2", "5", "4">> \o Tail(Trim(ToStringJS(input)))

\* normalizePhone(input): the local, +254 and bare 9-digit forms to 254...
normalizePhone(input) ==
    IF ~Truthy(input) THEN <<>>
    ELSE LET s == Trim(ToStringJS(input)) IN
         CASE StartsWith(s, <<"0", "7">>) -> <<"2", "5", "4">> \o Tail(s)
           [] StartsWith(s, <<"+", "2", "5", "4">>) -> Tail(s)
           [] StartsWith(s, <<"2", "5", "4">>) -> s
           [] Len(s) = 9 /\ AllDigits(s) -> <<"2", "5", "4">> \o s
           [] OTHER -> s

\* the pattern without its end anchor: /^2547\d{8}/
IsCanonicalPrefix(p) ==
    /\ Len(p) >= 12
    /\ SubSeq(p, 1, 4) = <<"2", "5", "4", "7">>
    /\ AllDigits(SubSeq(p, 5, 12))

\* /^2547\d{8}$/.test(partyA)
IsCanonicalPhone(p) ==
    /\ Len(p) = 12
    /\ SubSeq(p, 1, 4) = <<"2", "5", "4", "7">>
    /\ AllDigits(SubSeq(p, 5, 12))

----------------------------------------------------------------------------
(* The token cache and getAccessToken.                                     *)

\* tokenCache.expiresAt > now + 5000
SafetyMargin == 5000

\* data.expires_in || 3600
DefaultLifetime == 3600

\* let tokenCache = { token: null, expiresAt: 0 }
EmptyCache == [token |-> Null, expiresAt |-> 0]

\* a cache that forgets the safety margin: any unexpired token is returned
CacheHitNoMargin(cache, now) == Truthy(cache.token) /\ cache.expiresAt > now

\* the condition under which getAccessToken returns the cached token
CacheHit(cache, now) ==
    Truthy(cache.token) /\ cache.expiresAt > now + SafetyMargin

\* ToNumber of the operand of * : a number, or a string of decimal digits
ToNumber(v) == IF v.t = "str" THEN CharsToNat(v.s) ELSE v.n

\* (data.expires_in || 3600) * 1000
LifetimeMs(data) == ToNumber(OrElse(data.expires_in, Num(DefaultLifetime))) * 1000

\* a getAccessToken that is cut between its two assignments: the token is
\* new, expiresAt is still the old one
StoreTokenTorn(now, data) ==
    [token |-> data.access_token, expiresAt |-> tokenCache.expiresAt]

\* the two assignments to tokenCache after the exchange has answered;
\* now is the time at which getAccessToken was entered
StoreToken(now, data) ==
    [token |-> data.access_token, expiresAt |-> now + LifetimeMs(data)]

----------------------------------------------------------------------------
(* The gateway: the credential exchange and the push-payment endpoint.     *)

\* expires_in as the exchange reports it: not at all, a number of seconds,
\* or the same as a string of digits
ExpiresInChoices == {Undef, Num(6), Str(<<"7">>)}

\* the access token of the k-th exchange answered
IssuedToken(k) == Str(<<"t">> \o NatToChars(k))

\* how far the clock moves in one step
TickSteps == {1000, 3600000}

----------------------------------------------------------------------------
(* What the gateway posts to /callbackurl.  req.body is                    *)
(*   { Body: { stkCallback: { MerchantRequestID, CheckoutRequestID,        *)
(*       ResultCode, ResultDesc, CallbackMetadata: { Item: [...] } } } }   *)
(* shape says how much of that is there:                                   *)
(*   "noBody"   req.body has no Body                                       *)
(*   "noCb"     Body has neither stkCallback nor STKCallback               *)
(*   "cb"       Body.stkCallback is the object cb                          *)
(*   "altCb"    Body.STKCallback is the object cb                          *)
(*   "scalarCb" Body.stkCallback is a non-empty string, not an object      *)
(* and meta.kind says the same of CallbackMetadata:                        *)
(*   "absent"   no CallbackMetadata                                        *)
(*   "noItem"   CallbackMetadata without Item                              *)
(*   "badItem"  Item is an object that is not an array                     *)
(*   "list"     Item is the array meta.Item of { Name, Value }             *)

NoMeta == [kind |-> "absent", Item |-> <<>>]

MetaList(items) == [kind |-> "list", Item |-> items]

MetaItem(name, value) == [Name |-> name, Value |-> value]

NoCb ==
    [MerchantRequestID |-> Undef, CheckoutRequestID |-> Undef, ResultCode |-> Undef,
     ResultDesc |-> Undef, meta |-> NoMeta]

CbObject(merchant, checkout, code, desc, meta) ==
    [MerchantRequestID |-> merchant, CheckoutRequestID |-> checkout,
     ResultCode |-> code, ResultDesc |-> desc, meta |-> meta]

CbBody(shape, cb) == [shape |-> shape, cb |-> cb]

NoBody == CbBody("noBody", NoCb)

\* the CheckoutRequestIDs the gateway issues and reports
Ws1 == <<"w", "s", "1">>

Ws2 == <<"w", "s", "2">>

CheckoutIds == {Ws1, Ws2}

FullMeta ==
    MetaList(<<MetaItem("Amount", Num(50)),
               MetaItem("MpesaReceiptNumber", Str(<<"A", "B", "1">>)),
               MetaItem("TransactionDate", Num(2019)),
               MetaItem("PhoneNumber", Num(2547))>>)

Paid(id) == CbObject(Str(<<"m", "1">>), Str(id), Num(0), Str(<<"o", "k">>), FullMeta)

Cancelled(id) == CbObject(Str(<<"m", "1">>), Str(id), Num(1032), Str(<<"n", "o">>), NoMeta)

\* the callbacks delivered in the model
CbBodies ==
    { CbBody("cb", Paid(Ws1)),
      CbBody("cb", Cancelled(Ws1)),
      CbBody("cb", Paid(Ws2)),
      CbBody("altCb", Cancelled(Ws2)),
      NoBody,
      CbBody("noCb", NoCb),
      CbBody("scalarCb", NoCb),
      CbBody("cb", CbObject(Undef, Undef, Undef, Undef, NoMeta)),
      CbBody("cb", CbObject(Str(<<"m", "1">>), Str(Ws1), Str(<<"x">>), Str(<<"o", "k">>), NoMeta)),
      CbBody("cb", CbObject(Str(<<"m", "1">>), Str(Ws2), Num(0), Str(<<"o", "k">>),
                            [kind |-> "badItem", Item |-> <<>>])) }

----------------------------------------------------------------------------
(* The Transaction model (mongoose).                                       *)

\* a String path: numbers are cast to their decimal text
CastString(v) == IF v.t = "num" THEN Str(NumToChars(v.n)) ELSE v

\* a Number path takes numbers and strings of digits; "" is cast to null
CastableNumber(v) == v.t # "str" \/ AllDigits(v.s)

CastNumber(v) ==
    CASE v.t = "str" /\ v.s = <<>> -> Null
      [] v.t = "str" /\ AllDigits(v.s) -> Num(CharsToNat(v.s))
      [] OTHER -> v

\* a handler that only looks for Body, not for the callback in it
HasBodyOnly(body) == body.shape # "noBody"

\* const cb = body.Body?.stkCallback || body.Body?.STKCallback || null
HasCallback(body) == body.shape \in {"cb", "altCb", "scalarCb"}

\* cb.<field>: a string has none of the fields read
CbOf(body) == IF body.shape = "scalarCb" THEN NoCb ELSE body.cb

\* const metaItems = cb.CallbackMetadata?.Item || []
MetaItems(cb) == IF cb.meta.kind = "list" THEN cb.meta.Item ELSE <<>>

\* metaItems.find is not a function
FindThrows(cb) == cb.meta.kind = "badItem"

\* an extraction by position: the entries in the order Amount,
\* MpesaReceiptNumber, TransactionDate, PhoneNumber, whatever their names
getValByPosition(cb, name) ==
    LET items == MetaItems(cb)
        k == CASE name = "Amount" -> 1
               [] name = "MpesaReceiptNumber" -> 2
               [] name = "TransactionDate" -> 3
               [] OTHER -> 4
    IN  IF k > Len(items) THEN Null ELSE OrElse(items[k].Value, Null)

\* metaItems.find((i) => i.Name === name)?.Value || null
getVal(cb, name) ==
    LET items == MetaItems(cb)
        hits == {i \in 1..Len(items) : items[i].Name = name}
    IN  IF hits = {} THEN Null
        ELSE LET first == CHOOSE i \in hits : \A j \in hits : i <= j
             IN  OrElse(items[first].Value, Null)

\* new Transaction({...}): the document of one callback; id is its _id and
\* now the time of construction (createdAt defaults to Date.now)
NewTransaction(body, id, now) ==
    LET cb == CbOf(body) IN
    [_id |-> id,
     MerchantRequestID |-> CastString(cb.MerchantRequestID),
     CheckoutRequestID |-> CastString(cb.CheckoutRequestID),
     ResultCode |-> CastNumber(cb.ResultCode),
     ResultDesc |-> CastString(cb.ResultDesc),
     Amount |-> CastNumber(OrElse(getVal(cb, "Amount"), Num(0))),
     MpesaReceiptNumber |-> CastString(OrElse(getVal(cb, "MpesaReceiptNumber"), Str(<<>>))),
     TransactionDate |-> CastString(OrElse(getVal(cb, "TransactionDate"), Str(<<>>))),
     PhoneNumber |-> CastString(OrElse(getVal(cb, "PhoneNumber"), Str(<<>>))),
     receiverNumber |-> Undef,
     rawCallback |-> body,
     createdAt |-> now,
     castError |-> ~(CastableNumber(cb.ResultCode)
                     /\ CastableNumber(OrElse(getVal(cb, "Amount"), Num(0))))]

NoDoc == NewTransaction(NoBody, 0, 0)

\* document.save() validates first: a value that could not be cast fails it
Validates(doc) == ~doc.castError

\* a store that only updates: the record of the same CheckoutRequestID is
\* replaced, and a document of an unknown one is dropped
UpdateOnly(coll, doc) ==
    [i \in 1..Len(coll) |->
        IF coll[i].CheckoutRequestID = doc.CheckoutRequestID THEN doc ELSE coll[i]]

\* the insert of document.save()
Insert(coll, doc) == Append(coll, doc)

----------------------------------------------------------------------------
(* Handler invocations.                                                    *)

NoPayload == [Amount |-> Undef, PartyA |-> <<>>, PhoneNumber |-> <<>>, receiver |-> <<>>]

\* what POST /stkpush is sent: { phone, amount, receiver }
StkInput(phone, amount, receiver) ==
    [phone |-> phone, amount |-> amount, receiver |-> receiver]

\* a req.body without phone, amount and receiver
NoInput == StkInput(Undef, Undef, Undef)

Idle == [kind |-> "idle", pc |-> "idle", now |-> 0, token |-> Undef,
         input |-> NoInput, payload |-> NoPayload, doc |-> NoDoc]

\* nothing sent yet
NoResp == [status |-> 0, kind |-> "none", message |-> "", ResultCode |-> 0 - 1,
           ResultDesc |-> "", payload |-> Undef]

\* res.status(code).json({ message })
ErrorResp(code, message) ==
    [status |-> code, kind |-> "error", message |-> message, ResultCode |-> 0 - 1,
     ResultDesc |-> "", payload |-> Undef]

\* res.json({ ResultCode: 0, ResultDesc: "Success" })
AckResp ==
    [status |-> 200, kind |-> "ack", message |-> "", ResultCode |-> 0,
     ResultDesc |-> "Success", payload |-> Undef]

\* res.json({ access_token: token })
TokenResp(token) ==
    [status |-> 200, kind |-> "token", message |-> "", ResultCode |-> 0 - 1,
     ResultDesc |-> "", payload |-> token]

\* res.json({ success: true, payload: stkResponse })
StkResp(checkoutId) ==
    [status |-> 200, kind |-> "stk", message |-> "", ResultCode |-> 0 - 1,
     ResultDesc |-> "", payload |-> Str(checkoutId)]

\* invocations are numbered in the order in which they arrive
NextFree(r) ==
    /\ reqs[r].kind = "idle"
    /\ \A q \in ReqIds : q < r => reqs[q].kind # "idle"

Init ==
    /\ clock = 0
    /\ tokenCache = EmptyCache
    /\ store = <<>>
    /\ reqs = [r \in ReqIds |-> Idle]
    /\ resp = [r \in ReqIds |-> NoResp]
    /\ gateway = [exchangeCalls |-> <<>>, issued |-> <<>>, pushes |-> <<>>]
    /\ ticks = 0

\* time passes: d milliseconds
Tick(d) ==
    /\ ticks < MaxTicks
    /\ clock' = clock + d
    /\ ticks' = ticks + 1
    /\ UNCHANGED <<tokenCache, store, reqs, resp, gateway>>

----------------------------------------------------------------------------
(* getAccessToken, entered by GET /token and POST /stkpush.                *)

\* a getAccessToken that repeats the exchange call after issuing it
CallExchangeTwice(gw, r) == [gw EXCEPT !.exchangeCalls = Append(Append(@, r), r)]

\* the outbound calls: axios.get of the exchange, axios.post of the push
CallExchange(gw, r) == [gw EXCEPT !.exchangeCalls = Append(@, r)]

CallPush(gw, r, payload, token) ==
    [gw EXCEPT !.pushes = Append(@, [req |-> r, payload |-> payload, token |-> token])]

\* the exchange answers: data = { access_token, expires_in }
ExchangeData(gw, expiresIn) ==
    [access_token |-> IssuedToken(Len(gw.issued) + 1), expires_in |-> expiresIn]

Respond(r, answer) == resp' = [resp EXCEPT ![r] = answer]

\* GET /token: getAccessToken up to its return or its await
TokenStart(r) ==
    /\ NextFree(r)
    /\ IF CacheHit(tokenCache, clock)
       THEN /\ reqs' = [reqs EXCEPT ![r] = [Idle EXCEPT !.kind = "tok", !.pc = "done",
                                                      !.now = clock,
                                                      !.token = tokenCache.token]]
            /\ Respond(r, TokenResp(tokenCache.token))
            /\ UNCHANGED gateway
       ELSE /\ reqs' = [reqs EXCEPT ![r] = [Idle EXCEPT !.kind = "tok",
                                                      !.pc = "awaitToken",
                                                      !.now = clock]]
            /\ gateway' = CallExchange(gateway, r)
            /\ UNCHANGED resp
    /\ UNCHANGED <<clock, tokenCache, store, ticks>>

Local07 == Str(<<"0", "7", "1", "2", "3", "4", "5", "6", "7", "8">>)

StkInputs ==
    { StkInput(Local07, Num(50), Undef),
      StkInput(Str(<<"+", "2", "5", "4", "7", "1", "2", "3", "4", "5", "6", "7", "8">>),
               Num(50), Str(<<"7", "1", "2", "3", "4", "5", "6", "7", "9">>)),
      StkInput(Undef, Num(50), Undef),
      StkInput(Local07, Num(0), Undef),
      StkInput(Local07, Num(0 - 5), Undef),
      StkInput(Str(<<"0", "1", "1", "2", "3", "4", "5", "6", "7", "8">>), Num(50), Undef),
      StkInput(Local07, Str(<<"a", "b", "c">>), Undef),
      StkInput(Str(<<"2", "5", "4", "7", "1", "2", "3", "4", "5", "6", "7", "8", "9">>),
               Num(50), Undef) }

\* the payload of the push-payment call
StkPayload(in) ==
    LET partyA == normalizePhone(in.phone)
        receiverNormalized ==
            IF Truthy(in.receiver) THEN normalizePhone(in.receiver) ELSE partyA
    IN  [Amount |-> in.amount, PartyA |-> partyA, PhoneNumber |-> partyA,
         receiver |-> receiverNormalized]

\* POST /stkpush up to its first response or its first pending call
StkStart(r, in) ==
    /\ NextFree(r)
    /\ LET payload == StkPayload(in)
           started == [Idle EXCEPT !.kind = "stk", !.input = in, !.payload = payload]
       IN  IF ~Truthy(in.phone) \/ ~Truthy(in.amount)
           THEN /\ reqs' = [reqs EXCEPT ![r] = [started EXCEPT !.pc = "done",
                                                           !.payload = NoPayload]]
                /\ Respond(r, ErrorResp(400, "phone and amount are required"))
                /\ UNCHANGED gateway
           ELSE IF ~IsCanonicalPhone(payload.PartyA)
           THEN /\ reqs' = [reqs EXCEPT ![r] = [started EXCEPT !.pc = "done",
                                                           !.payload = NoPayload]]
                /\ Respond(r, ErrorResp(400, "Invalid paying phone format"))
                /\ UNCHANGED gateway
           ELSE IF CacheHit(tokenCache, clock)
           THEN /\ reqs' = [reqs EXCEPT ![r] = [started EXCEPT !.pc = "awaitPush",
                                                           !.token = tokenCache.token]]
                /\ gateway' = CallPush(gateway, r, payload, tokenCache.token)
                /\ UNCHANGED resp
           ELSE /\ reqs' = [reqs EXCEPT ![r] = [started EXCEPT !.pc = "awaitToken",
                                                           !.now = clock]]
                /\ gateway' = CallExchange(gateway, r)
                /\ UNCHANGED resp
    /\ UNCHANGED <<clock, tokenCache, store, ticks>>

\* the exchange answers request r: the rest of getAccessToken, then the
\* caller up to its response (GET /token) or its push call (POST /stkpush)
ExchangeOk(r, expiresIn) ==
    /\ reqs[r].pc = "awaitToken"
    /\ LET data == ExchangeData(gateway, expiresIn)
           cache == StoreToken(reqs[r].now, data)
           issued == [gateway EXCEPT !.issued =
                         Append(@, [req |-> r, token |-> data.access_token,
                                    expires_in |-> expiresIn, at |-> clock])]
       IN  /\ tokenCache' = cache
           /\ IF reqs[r].kind = "tok"
              THEN /\ reqs' = [reqs EXCEPT ![r].pc = "done", ![r].token = cache.token]
                   /\ Respond(r, TokenResp(cache.token))
                   /\ gateway' = issued
              ELSE /\ reqs' = [reqs EXCEPT ![r].pc = "awaitPush", ![r].token = cache.token]
                   /\ gateway' = CallPush(issued, r, reqs[r].payload, cache.token)
                   /\ UNCHANGED resp
    /\ UNCHANGED <<clock, store, ticks>>

\* a getAccessToken that drops the cached token when the exchange fails
FailedCacheCleared(cache) == [cache EXCEPT !.token = Null]

\* the cache after a failed exchange: the await throws before either
\* assignment to tokenCache
FailedCache(cache) == cache

\* the exchange fails: axios.get rejects, getAccessToken throws
ExchangeFail(r) ==
    /\ reqs[r].pc = "awaitToken"
    /\ reqs' = [reqs EXCEPT ![r].pc = "done"]
    /\ tokenCache' = FailedCache(tokenCache)
    /\ Respond(r, ErrorResp(500, IF reqs[r].kind = "tok" THEN "Failed to get token"
                                 ELSE "STK Push failed"))
    /\ UNCHANGED <<clock, store, gateway, ticks>>

\* an initiation that creates a Pending record unless the id is known
StkRecordIfAbsent(coll, r, checkoutId) ==
    IF \E i \in 1..Len(coll) : coll[i].CheckoutRequestID = Str(checkoutId)
    THEN coll
    ELSE Append(coll, [NoDoc EXCEPT !._id = r, !.CheckoutRequestID = Str(checkoutId)])

\* what POST /stkpush does to the collection once the push call has
\* succeeded: res.json(...) and nothing else
StkRecord(coll, r, checkoutId) == coll

\* the push-payment call succeeds: the gateway issues a CheckoutRequestID
PushOk(r, checkoutId) ==
    /\ reqs[r].pc = "awaitPush"
    /\ reqs' = [reqs EXCEPT ![r].pc = "done"]
    /\ store' = StkRecord(store, r, checkoutId)
    /\ Respond(r, StkResp(checkoutId))
    /\ UNCHANGED <<clock, tokenCache, gateway, ticks>>

\* the push-payment call fails or times out
PushFail(r) ==
    /\ reqs[r].pc = "awaitPush"
    /\ reqs' = [reqs EXCEPT ![r].pc = "done"]
    /\ Respond(r, ErrorResp(500, "STK Push failed"))
    /\ UNCHANGED <<clock, tokenCache, store, gateway, ticks>>

----------------------------------------------------------------------------
(* POST /callbackurl.                                                      *)

\* a handler that acknowledges before it awaits save()
AckBeforeSave(doc) == AckResp

\* what the handler has sent when it reaches await newTransaction.save():
\* nothing, res.json comes after the await
SentBeforeSave(doc) == NoResp

\* up to the first response or to await newTransaction.save()
CallbackStart(r, body) ==
    /\ NextFree(r)
    /\ LET started == [Idle EXCEPT !.kind = "cb",
                                   !.doc = [NoDoc EXCEPT !.rawCallback = body]]
       IN  IF ~HasCallback(body)
           THEN /\ reqs' = [reqs EXCEPT ![r] = [started EXCEPT !.pc = "done"]]
                /\ Respond(r, ErrorResp(400, "No callback body found"))
           ELSE IF FindThrows(CbOf(body))
           THEN /\ reqs' = [reqs EXCEPT ![r] = [started EXCEPT !.pc = "done"]]
                /\ Respond(r, ErrorResp(500, "Callback save error"))
           ELSE /\ reqs' = [reqs EXCEPT ![r] =
                               [started EXCEPT !.pc = "awaitSave",
                                               !.doc = NewTransaction(body, r, clock)]]
                /\ Respond(r, SentBeforeSave(NewTransaction(body, r, clock)))
    /\ UNCHANGED <<clock, tokenCache, store, gateway, ticks>>

\* the store takes the document
SaveOk(r) ==
    /\ reqs[r].pc = "awaitSave"
    /\ Validates(reqs[r].doc)
    /\ store' = Insert(store, reqs[r].doc)
    /\ reqs' = [reqs EXCEPT ![r].pc = "saved"]
    /\ UNCHANGED <<clock, tokenCache, resp, gateway, ticks>>

\* a handler that swallows the rejection of save()
SaveErrorSwallowed == AckResp

\* what the handler answers when save() rejects
SaveErrorResp == ErrorResp(500, "Callback save error")

\* save() rejects: the document does not validate, or the store is down
SaveFail(r) ==
    /\ reqs[r].pc = "awaitSave"
    /\ reqs' = [reqs EXCEPT ![r].pc = "done"]
    /\ Respond(r, SaveErrorResp)
    /\ UNCHANGED <<clock, tokenCache, store, gateway, ticks>>

\* a handler that acknowledges only the payments that succeeded
SavedRespByOutcome(doc) ==
    IF doc.ResultCode = Num(0) THEN AckResp ELSE ErrorResp(500, "Callback save error")

\* what the handler answers once save() has resolved
SavedResp(doc) == AckResp

\* save() has resolved: the acknowledgment
CallbackAck(r) ==
    /\ reqs[r].pc = "saved"
    /\ reqs' = [reqs EXCEPT ![r].pc = "done"]
    /\ Respond(r, SavedResp(reqs[r].doc))
    /\ UNCHANGED <<clock, tokenCache, store, gateway, ticks>>

\* what a callback whose save() resolves does to the collection: the steps
\* CallbackStart and SaveOk of request r, taken at time now
CallbackEffect(coll, body, r, now) ==
    IF HasCallback(body) /\ ~FindThrows(CbOf(body))
       /\ Validates(NewTransaction(body, r, now))
    THEN Insert(coll, NewTransaction(body, r, now))
    ELSE coll

----------------------------------------------------------------------------

\* the exchange answers or fails
ExchangeNext ==
    \/ \E r \in ReqIds : \E e \in ExpiresInChoices : ExchangeOk(r, e)
    \/ \E r \in ReqIds : ExchangeFail(r)

\* GET /token
TokenNext == \E r \in ReqIds : TokenStart(r)

\* POST /stkpush and the push-payment call it waits for
StkNext ==
    \/ \E r \in ReqIds : \E in \in StkInputs : StkStart(r, in)
    \/ \E r \in ReqIds : \E id \in CheckoutIds : PushOk(r, id)
    \/ \E r \in ReqIds : PushFail(r)

\* POST /callbackurl and the store write it waits for
CallbackNext ==
    \/ \E r \in ReqIds : \E body \in CbBodies : CallbackStart(r, body)
    \/ \E r \in ReqIds : SaveOk(r)
    \/ \E r \in ReqIds : SaveFail(r)
    \/ \E r \in ReqIds : CallbackAck(r)

\* the clock advances by some step
Advance == \E d \in TickSteps : Tick(d)

Next == Advance \/ TokenNext \/ ExchangeNext \/ StkNext \/ CallbackNext

\* the whole server
Spec == Init /\ [][Next]_vars

\* the callback route alone
SpecCallback == Init /\ [][Tick(1000) \/ CallbackNext]_vars

\* the requests and the callbacks of the two routes taken together: a valid
\* and a rejected initiation; a paid, a cancelled, a differently keyed and
\* an empty callback
FlowStkInputs == {StkInput(Local07, Num(50), Undef), StkInput(Undef, Num(50), Undef)}

FlowBodies ==
    {CbBody("cb", Paid(Ws1)), CbBody("cb", Cancelled(Ws1)),
     CbBody("altCb", Cancelled(Ws2)), NoBody}

\* the initiation and the callback routes; the clock stands still and the
\* exchange reports no lifetime
FlowNext ==
    \/ \E r \in ReqIds : \E in \in FlowStkInputs : StkStart(r, in)
    \/ \E r \in ReqIds : ExchangeOk(r, Undef)
    \/ \E r \in ReqIds : ExchangeFail(r)
    \/ \E r \in ReqIds : \E id \in CheckoutIds : PushOk(r, id)
    \/ \E r \in ReqIds : PushFail(r)
    \/ \E r \in ReqIds : \E body \in FlowBodies : CallbackStart(r, body)
    \/ \E r \in ReqIds : SaveOk(r)
    \/ \E r \in ReqIds : SaveFail(r)
    \/ \E r \in ReqIds : CallbackAck(r)

SpecFlow == Init /\ [][FlowNext]_vars

\* the initiation route alone, with every kind of request; the clock stands
\* still and the exchange reports no lifetime
StkOnlyNext ==
    \/ StkNext
    \/ \E r \in ReqIds : ExchangeOk(r, Undef)
    \/ \E r \in ReqIds : ExchangeFail(r)

SpecStk == Init /\ [][StkOnlyNext]_vars

\* the push-payment call of request r comes to an end: it is sent with
\* timeout: 15000, so it is answered, fails or is aborted
PushResolves(r) == PushFail(r) \/ \E id \in CheckoutIds : PushOk(r, id)

\* the initiation route when the gateway may stay silent: every push call
\* ends, by its timeout if not otherwise; the exchange call is sent without
\* a timeout and nothing makes it end
SpecLive ==
    /\ Init
    /\ [][StkOnlyNext]_vars
    /\ \A r \in ReqIds : WF_vars(PushResolves(r))

\* the phones a client may send: a subscriber number, or something like
\* one, behind each of the prefixes in use, with and without a trailing
\* blank; a number instead of a string; nothing
PhonePrefixes ==
    {<<>>, <<"0">>, <<"+", "2", "5", "4">>, <<"2", "5", "4">>, <<" ", "0">>, <<"+">>}

PhoneSubscribers ==
    { <<"7", "1", "2", "3", "4", "5", "6", "7", "8">>,
      <<"1", "1", "2", "3", "4", "5", "6", "7", "8">>,
      <<"7", "1", "2", "3", "4", "5", "6", "7">>,
      <<"7", "1", "2", "3", "x", "5", "6", "7", "8">> }

PhoneSuffixes == {<<>>, <<" ">>}

PhoneInputs ==
    {Str(p \o m \o x) : p \in PhonePrefixes, m \in PhoneSubscribers, x \in PhoneSuffixes}
    \cup {Num(712345678), Num(0), Undef, Str(<<>>)}

\* POST /stkpush up to its validation, for every phone
PhoneNext ==
    \E r \in ReqIds : \E phone \in PhoneInputs : StkStart(r, StkInput(phone, Num(50), Undef))

SpecPhone == Init /\ [][PhoneNext]_vars

\* a paid callback whose metadata has no MpesaReceiptNumber entry
PartialMeta ==
    MetaList(<<MetaItem("Amount", Num(50)),
               MetaItem("TransactionDate", Num(2019)),
               MetaItem("PhoneNumber", Num(2547))>>)

PartlyPaid(id) ==
    CbObject(Str(<<"m", "1">>), Str(id), Num(0), Str(<<"o", "k">>), PartialMeta)

\* the callbacks whose fields are extracted: paid with complete metadata,
\* cancelled without metadata, paid with one entry missing
ExtractBodies ==
    {CbBody("cb", Paid(Ws1)), CbBody("cb", Cancelled(Ws1)), CbBody("cb", PartlyPaid(Ws2))}

ExtractNext ==
    \/ \E r \in ReqIds : \E body \in ExtractBodies : CallbackStart(r, body)
    \/ \E r \in ReqIds : SaveOk(r)
    \/ \E r \in ReqIds : SaveFail(r)
    \/ \E r \in ReqIds : CallbackAck(r)

\* the callback route over these callbacks
SpecExtract == Init /\ [][Tick(1000) \/ ExtractNext]_vars

----------------------------------------------------------------------------
(* The first version of the server (lines 1-200): its callback handler     *)
(* escapes the three text fields of the confirmation object and writes to  *)
(* the same collection.                                                    *)

\* the entity of a reserved character; any other character stays
Entity(c) ==
    CASE c = "&" -> <<"&", "a", "m", "p", ";">>
      [] c = "<" -> <<"&", "l", "t", ";">>
      [] c = ">" -> <<"&", "g", "t", ";">>
      [] c = "'" -> <<"&", "a", "p", "o", "s", ";">>
      [] c = "\"" -> <<"&", "q", "u", "o", "t", ";">>
      [] OTHER -> <<c>>

RECURSIVE sanitizeXml(_)
\* str.replace(/[&<>'"]/g, (c) => entity of c)
sanitizeXml(str) ==
    IF str = <<>> THEN <<>> ELSE Entity(Head(str)) \o sanitizeXml(Tail(str))

\* sanitizeXml(v) of a field: str = "" stands in for undefined only
SanitizeField(v) ==
    IF v.t = "undef" THEN Str(<<>>) ELSE Str(sanitizeXml(v.s))

\* null.replace and (5).replace are not functions
SanitizeThrows(v) == v.t \in {"null", "num"}

\* const callback = req.body.Body.stkCallback and the reads of its fields:
\* what makes the construction of the document throw
ThrowsV1(body) ==
    \/ body.shape \in {"noBody", "noCb", "altCb"}
    \/ /\ body.shape = "cb"
       /\ \/ SanitizeThrows(body.cb.MerchantRequestID)
          \/ SanitizeThrows(body.cb.CheckoutRequestID)
          \/ SanitizeThrows(body.cb.ResultDesc)
          \/ FindThrows(body.cb)

\* new Transaction({...}) of the first version; its schema has neither
\* receiverNumber nor createdAt (here -1)
NewTransactionV1(body, id) ==
    LET cb == CbOf(body) IN
    [NewTransaction(body, id, 0) EXCEPT
        !.MerchantRequestID = SanitizeField(cb.MerchantRequestID),
        !.CheckoutRequestID = SanitizeField(cb.CheckoutRequestID),
        !.ResultDesc = SanitizeField(cb.ResultDesc),
        !.createdAt = 0 - 1]

\* the first version's POST /callbackurl up to its 500 or to await save()
CallbackStartV1(r, body) ==
    /\ NextFree(r)
    /\ LET started == [Idle EXCEPT !.kind = "cb",
                                   !.doc = [NoDoc EXCEPT !.rawCallback = body]]
       IN  IF ThrowsV1(body)
           THEN /\ reqs' = [reqs EXCEPT ![r] = [started EXCEPT !.pc = "done"]]
                /\ Respond(r, ErrorResp(500, "Callback save error"))
           ELSE /\ reqs' = [reqs EXCEPT ![r] =
                               [started EXCEPT !.pc = "awaitSave",
                                               !.doc = NewTransactionV1(body, r)]]
                /\ UNCHANGED resp
    /\ UNCHANGED <<clock, tokenCache, store, gateway, ticks>>

\* a callback whose text fields carry the reserved characters
ScriptedMeta ==
    MetaList(<<MetaItem("Amount", Num(50)),
               MetaItem("MpesaReceiptNumber", Str(<<"<", "R", ">">>)),
               MetaItem("TransactionDate", Num(2019)),
               MetaItem("PhoneNumber", Num(2547))>>)

Scripted(id) ==
    CbObject(Str(<<"m", "1">>), Str(id), Num(0),
             Str(<<"<", "b", ">", "&", "'", "\"">>), ScriptedMeta)

SanitizeBodies ==
    {CbBody("cb", Scripted(Ws1)), CbBody("cb", Paid(Ws2)), CbBody("altCb", Cancelled(Ws2))}

\* both versions of the callback route, whichever is deployed
SanitizeNext ==
    \/ \E r \in ReqIds : \E body \in SanitizeBodies : CallbackStart(r, body)
    \/ \E r \in ReqIds : \E body \in SanitizeBodies : CallbackStartV1(r, body)
    \/ \E r \in ReqIds : SaveOk(r)
    \/ \E r \in ReqIds : SaveFail(r)
    \/ \E r \in ReqIds : CallbackAck(r)

SpecSanitize == Init /\ [][SanitizeNext]_vars

----------------------------------------------------------------------------

\* the token cache alone, behind GET /token
SpecToken == Init /\ [][Advance \/ TokenNext \/ ExchangeNext]_vars

----------------------------------------------------------------------------
(* What the claims speak of.                                               *)

IsCallback(r) == reqs[r].kind = "cb"

\* the body request r was posted
BodyOf(r) == reqs[r].doc.rawCallback

\* the body carries a confirmation object under one of the two keys
CarriesCallback(body) == body.shape \in {"cb", "altCb", "scalarCb"}

\* the records of the store written by request r
WrittenBy(r) == {i \in 1..Len(store) : store[i]._id = r}

\* the records of a collection that carry CheckoutRequestID id
RecordsWith(coll, id) == {i \in 1..Len(coll) : coll[i].CheckoutRequestID = Str(id)}

\* a record without its timestamp and its store-assigned _id
Timeless(doc) == [doc EXCEPT !.createdAt = 0, !._id = 0]

\* the gateway was sent the success acknowledgment for request r
Acknowledged(r) ==
    /\ resp[r].status = 200
    /\ resp[r].ResultCode = 0
    /\ resp[r].ResultDesc = "Success"

\* C1: starting from an empty store, the same callback payload handled
\* twice leaves exactly one record, equal (timestamps aside) to the record
\* that handling it once leaves.
C1_ReconcileIdempotent ==
    \A r1 \in ReqIds : \A r2 \in ReqIds :
        ( /\ r1 # r2
          /\ IsCallback(r1) /\ IsCallback(r2)
          /\ Acknowledged(r1) /\ Acknowledged(r2)
          /\ BodyOf(r1) = BodyOf(r2)
          /\ \A i \in 1..Len(store) : store[i]._id \in {r1, r2} )
        => /\ Len(store) = 1
           /\ Timeless(store[1]) = Timeless(reqs[r1].doc)

\* C2: no two stored Transaction records carry the same CheckoutRequestID.
C2_UniqueCheckoutId ==
    \A i \in 1..Len(store) : \A j \in 1..Len(store) :
        (i # j /\ store[i].CheckoutRequestID.t = "str")
        => store[i].CheckoutRequestID # store[j].CheckoutRequestID

\* C3: the recorded outcome of a CheckoutRequestID is the one of the most
\* recently handled callback: a duplicate leaves it as it is, and a
\* callback with a conflicting ResultCode overwrites it, so every record of
\* the id carries the ResultCode last stored for it.
C3_OutcomeOverwrittenByLatest ==
    \A id \in CheckoutIds :
        LET recs == RecordsWith(store, id) IN
        recs # {} =>
            LET last == CHOOSE i \in recs : \A j \in recs : j <= i
            IN  \A i \in recs : store[i].ResultCode = store[last].ResultCode

----------------------------------------------------------------------------

\* the records of the CheckoutRequestID in a collection
RecordSet(coll, id) == {coll[i] : i \in RecordsWith(coll, id)}

C5_InitiationCreatesPending ==
    /\ \A r \in ReqIds :
          (reqs[r].kind = "stk" /\ resp[r].kind = "stk")
          => \E i \in 1..Len(store) : store[i].CheckoutRequestID = resp[r].payload
    /\ \A i \in 1..Len(store) : store[i].ResultCode.t \in {"undef", "null", "num"}

\* the callback of request r names a CheckoutRequestID and a numeric outcome
NamesOutcome(r) ==
    /\ BodyOf(r).shape \in {"cb", "altCb"}
    /\ BodyOf(r).cb.CheckoutRequestID.t = "str"
    /\ BodyOf(r).cb.ResultCode.t = "num"

\* save() has resolved for request r
SaveResolved(r) == IsCallback(r) /\ (reqs[r].pc = "saved" \/ Acknowledged(r))

\* C6: a callback whose store write succeeds leaves a record carrying its
\* CheckoutRequestID and its ResultCode, whether or not the store held a
\* record of that id before.
C6_CallbackCreatesRecord ==
    \A r \in ReqIds :
        (SaveResolved(r) /\ NamesOutcome(r))
        => \E i \in 1..Len(store) :
              /\ store[i].CheckoutRequestID = BodyOf(r).cb.CheckoutRequestID
              /\ store[i].ResultCode = BodyOf(r).cb.ResultCode

\* the write of a callback has succeeded and its record is the only one of
\* its CheckoutRequestID: there was no prior record
C6_Witness ==
    \E r \in ReqIds :
        /\ SaveResolved(r) /\ NamesOutcome(r)
        /\ WrittenBy(r) # {}
        /\ \A i \in 1..Len(store) :
              store[i].CheckoutRequestID = BodyOf(r).cb.CheckoutRequestID
              => i \in WrittenBy(r)

\* the body has no confirmation object under either key
LacksCallback(body) == body.shape \in {"noBody", "noCb"}

\* the confirmation object is there and is not what the gateway sends: not
\* an object, without CheckoutRequestID, with a ResultCode that is no
\* number, or with metadata whose Item is no list
Malformed(body) ==
    \/ body.shape = "scalarCb"
    \/ /\ body.shape \in {"cb", "altCb"}
       /\ \/ body.cb.CheckoutRequestID.t # "str"
          \/ body.cb.ResultCode.t # "num"
          \/ body.cb.meta.kind = "badItem"

\* the rejection of a body without a confirmation object
NoCallbackResp == ErrorResp(400, "No callback body found")

C8_AlwaysAcknowledged ==
    \A r \in ReqIds :
        (IsCallback(r) /\ CarriesCallback(BodyOf(r)) /\ reqs[r].pc = "done"
         /\ WrittenBy(r) # {})
        => resp[r] = AckResp

\* the callback of a failed payment was stored and acknowledged
C8_Witness ==
    \E r \in ReqIds :
        /\ IsCallback(r) /\ reqs[r].pc = "done" /\ WrittenBy(r) # {}
        /\ BodyOf(r).cb.ResultCode = Num(1032)
        /\ Acknowledged(r)

\* the store write of the well-formed callback of request r has failed
WriteFailed(r) ==
    /\ IsCallback(r) /\ reqs[r].pc = "done"
    /\ CarriesCallback(BodyOf(r)) /\ ~Malformed(BodyOf(r))
    /\ WrittenBy(r) = {}

\* C9, as claimed: a failed store write is answered with the rejection of
\* a malformed callback, never with the acknowledgment.
C9_SameRejectionAsMalformed ==
    \A r \in ReqIds : WriteFailed(r) => (resp[r] = NoCallbackResp /\ ~Acknowledged(r))

\* C9, amended: a failed store write is answered 500 { message: "Callback
\* save error" }, never with the acknowledgment.
C9_SaveErrorRejected ==
    \A r \in ReqIds :
        WriteFailed(r)
        => /\ resp[r].status = 500
           /\ resp[r].message = "Callback save error"
           /\ ~Acknowledged(r)

\* the store write of a well-formed callback has failed
C9_Witness == \E r \in ReqIds : WriteFailed(r)

----------------------------------------------------------------------------

\* request r has called the credential exchange
CalledExchange(r) == \E k \in 1..Len(gateway.exchangeCalls) : gateway.exchangeCalls[k] = r

\* C10: getAccessToken returns the cached token, and calls no exchange,
\* exactly when a token is cached and more than 5 seconds remain before
\* expiresAt; otherwise it calls the exchange once, and when that answers
\* it stores the token with expiresAt = (time of entry) + the reported
\* lifetime, 3600 s when none is reported, and returns the new token.
C10_CachedOrExchanged ==
    [][/\ \A r \in ReqIds :
             (reqs[r].kind = "idle" /\ reqs'[r].kind = "tok")
             => /\ tokenCache' = tokenCache
                /\ IF /\ tokenCache.token.t = "str"
                      /\ tokenCache.token.s # <<>>
                      /\ tokenCache.expiresAt - clock > 5000
                   THEN /\ resp'[r] = TokenResp(tokenCache.token)
                        /\ gateway'.exchangeCalls = gateway.exchangeCalls
                   ELSE /\ resp'[r] = NoResp
                        /\ reqs'[r].now = clock
                        /\ gateway'.exchangeCalls = Append(gateway.exchangeCalls, r)
       /\ \A r \in ReqIds :
             (reqs[r].kind = "tok" /\ reqs[r].pc = "awaitToken"
              /\ Len(gateway'.issued) > Len(gateway.issued))
             => LET answer == gateway'.issued[Len(gateway'.issued)]
                    seconds == IF answer.expires_in.t = "undef" THEN 3600
                               ELSE ToNumber(answer.expires_in)
                IN  answer.req = r
                    => /\ tokenCache' = [token |-> answer.token,
                                         expiresAt |-> reqs[r].now + seconds * 1000]
                       /\ resp'[r] = TokenResp(answer.token)
                       /\ gateway'.exchangeCalls = gateway.exchangeCalls]_vars

\* after time has passed, one request was served from the cache that
\* another had filled through the exchange
C10_Witness ==
    \E r1 \in ReqIds : \E r2 \in ReqIds :
        /\ reqs[r1].kind = "tok" /\ CalledExchange(r1) /\ resp[r1].kind = "token"
        /\ reqs[r2].kind = "tok" /\ ~CalledExchange(r2) /\ resp[r2].kind = "token"
        /\ resp[r2].payload = resp[r1].payload
        /\ clock > 0

----------------------------------------------------------------------------

\* the exchange call of request r has failed
ExchangeFailed(r) ==
    /\ CalledExchange(r)
    /\ resp[r].status = 500

\* C11: when the credential exchange call fails, getAccessToken fails (the
\* caller answers 500) and the step leaves the token cache, token and
\* expiresAt, exactly as it was; a getAccessToken entered after a failure
\* while the cache is empty or expired calls the exchange again.
C11_FailureLeavesCache ==
    [][/\ \A r \in ReqIds :
             (reqs[r].pc = "awaitToken" /\ reqs'[r].pc = "done"
              /\ Len(gateway'.issued) = Len(gateway.issued))
             => /\ tokenCache' = tokenCache
                /\ resp'[r].status = 500
                /\ resp'[r].kind = "error"
       /\ \A r \in ReqIds :
             (reqs[r].kind = "idle" /\ reqs'[r].kind = "tok"
              /\ (\E q \in ReqIds : ExchangeFailed(q))
              /\ (tokenCache.token = Null \/ tokenCache.expiresAt <= clock))
             => gateway'.exchangeCalls = Append(gateway.exchangeCalls, r)]_vars

\* an exchange call has failed while the cache held the token of another
\* call, and the cache still holds it
C11_Witness ==
    \E r1 \in ReqIds : \E r2 \in ReqIds :
        /\ reqs[r1].kind = "tok" /\ ExchangeFailed(r1)
        /\ reqs[r2].kind = "tok" /\ resp[r2].kind = "token" /\ CalledExchange(r2)
        /\ r2 < r1
        /\ tokenCache.token = resp[r2].payload

----------------------------------------------------------------------------

\* the requests that found the cache empty or expired and called the exchange
Racers == {r \in ReqIds : CalledExchange(r)}

\* the tokens the exchange has issued
IssuedTokens == {gateway.issued[k].token : k \in 1..Len(gateway.issued)}

\* how often request r has called the exchange
ExchangeCallsOf(r) ==
    Cardinality({k \in 1..Len(gateway.exchangeCalls) : gateway.exchangeCalls[k] = r})

\* every request that called the exchange has returned a token
RaceOver == Racers # {} /\ \A r \in Racers : resp[r].kind = "token"

\* each request calls the exchange at most once, and every token returned
\* is one the exchange issued
RaceBounded ==
    /\ \A r \in ReqIds : ExchangeCallsOf(r) <= 1
    /\ Len(gateway.exchangeCalls) <= MaxReqs
    /\ \A r \in ReqIds : resp[r].kind = "token" => resp[r].payload \in IssuedTokens

----------------------------------------------------------------------------

IsStk(r) == reqs[r].kind = "stk"

\* the push-payment calls request r has issued
PushesOf(r) == {k \in 1..Len(gateway.pushes) : gateway.pushes[k].req = r}

\* request r has issued no outbound call
NoOutboundCall(r) == ~CalledExchange(r) /\ PushesOf(r) = {}

\* an amount that is absent, not a number, zero or negative
NotPositiveAmount(v) == v.t # "num" \/ v.n <= 0

\* C13: a POST /stkpush whose amount is absent, non-numeric, zero or
\* negative is answered 400 and issues neither the credential exchange nor
\* the push-payment call.
C13_BadAmountRejected ==
    \A r \in ReqIds :
        (IsStk(r) /\ NotPositiveAmount(reqs[r].input.amount))
        => /\ resp[r].status = 400
           /\ NoOutboundCall(r)

\* 2547 followed by 8 digits
MatchesPattern(p) ==
    /\ Len(p) = 12
    /\ p[1] = "2" /\ p[2] = "5" /\ p[3] = "4" /\ p[4] = "7"
    /\ \A i \in 5..12 : IsDigit(p[i])

\* C14: phone validation fails closed: a POST /stkpush whose payer phone
\* does not normalize to 2547 followed by 8 digits is answered 400 and
\* issues no outbound call, and every push-payment payload sent has PartyA
\* and PhoneNumber equal to one string of that pattern.
C14_PhoneFailsClosed ==
    /\ \A r \in ReqIds :
          (IsStk(r) /\ ~MatchesPattern(normalizePhone(reqs[r].input.phone)))
          => /\ resp[r].status = 400
             /\ NoOutboundCall(r)
    /\ \A k \in 1..Len(gateway.pushes) :
          /\ gateway.pushes[k].payload.PartyA = gateway.pushes[k].payload.PhoneNumber
          /\ MatchesPattern(gateway.pushes[k].payload.PartyA)

\* one request with a phone that is given, but is no subscriber number, was
\* rejected, and the push of another went out with the normalized form of a
\* phone given in another form
C14_Witness ==
    \E r1 \in ReqIds : \E r2 \in ReqIds :
        /\ IsStk(r1) /\ Truthy(reqs[r1].input.phone) /\ Truthy(reqs[r1].input.amount)
        /\ resp[r1].status = 400 /\ NoOutboundCall(r1)
        /\ IsStk(r2) /\ PushesOf(r2) # {}
        /\ reqs[r2].input.phone # Str(reqs[r2].payload.PartyA)

----------------------------------------------------------------------------

\* the phone of request r has passed validation
PhoneAccepted(r) == IsStk(r) /\ resp[r].status # 400

\* C15: normalizePhone is idempotent on accepted inputs: normalizing the
\* normalized form of an accepted phone gives that form again, and an
\* accepted phone that already has the canonical form is its own
\* normalized form.
C15_NormalizeIdempotent ==
    \A r \in ReqIds :
        PhoneAccepted(r)
        => /\ reqs[r].payload.PartyA = normalizePhone(reqs[r].input.phone)
           /\ normalizePhone(Str(reqs[r].payload.PartyA)) = reqs[r].payload.PartyA
           /\ (reqs[r].input.phone.t = "str" /\ MatchesPattern(reqs[r].input.phone.s))
              => reqs[r].payload.PartyA = reqs[r].input.phone.s

\* a phone in the canonical form and a phone in another form, a number
\* without prefix, were both accepted
C15_Witness ==
    \E r1 \in ReqIds : \E r2 \in ReqIds :
        /\ PhoneAccepted(r1) /\ reqs[r1].input.phone = Str(reqs[r1].payload.PartyA)
        /\ PhoneAccepted(r2) /\ reqs[r2].input.phone = Num(712345678)
        /\ reqs[r2].payload.PartyA = reqs[r1].payload.PartyA

----------------------------------------------------------------------------

MetaNames == {"Amount", "MpesaReceiptNumber", "TransactionDate", "PhoneNumber"}

\* the metadata entries of a confirmation object that carry the name
EntriesOf(cb, name) ==
    IF cb.meta.kind # "list" THEN {}
    ELSE {k \in 1..Len(cb.meta.Item) : cb.meta.Item[k].Name = name}

\* the value of the first entry of that name, as the gateway sent it
MetaValue(cb, name) ==
    cb.meta.Item[CHOOSE k \in EntriesOf(cb, name) : \A j \in EntriesOf(cb, name) : k <= j].Value

\* the field of a stored record that takes the entry of that name
FieldOf(doc, name) ==
    CASE name = "Amount" -> doc.Amount
      [] name = "MpesaReceiptNumber" -> doc.MpesaReceiptNumber
      [] name = "TransactionDate" -> doc.TransactionDate
      [] OTHER -> doc.PhoneNumber

\* the default of that field: 0 for the amount, "" for the text fields
DefaultOf(name) == IF name = "Amount" THEN Num(0) ELSE Str(<<>>)

\* a metadata value as its field's type holds it: the amount as a number,
\* the others as text
AsField(name, v) == IF name = "Amount" THEN v ELSE Str(ToStringJS(v))

\* the confirmation object a record was built from
CbStored(doc) == doc.rawCallback.cb

CompleteMeta(cb) == \A name \in MetaNames : EntriesOf(cb, name) # {}

Succeeded(doc) == CbStored(doc).ResultCode = Num(0)

----------------------------------------------------------------------------

\* request r has been sent a response
Answered(r) == resp[r].status # 0

\* C17: every outbound call carries a timeout, so every POST /stkpush
\* request is eventually sent a response, even when the gateway never
\* answers.
C17_EveryRequestAnswered == \A r \in ReqIds : IsStk(r) ~> Answered(r)

----------------------------------------------------------------------------

\* the characters that must not be stored raw
RawReserved == {"<", ">", "'", "\""}

\* the text is free of raw reserved characters
NoRawReserved(v) == v.t = "str" => \A k \in 1..Len(v.s) : v.s[k] \notin RawReserved

\* the stored field is the escaped form of the text the callback carried
EscapedFrom(stored, sent) == sent.t = "str" => stored = Str(sanitizeXml(sent.s))

\* C18: every free-text field of a stored record is the escaped form of
\* what the callback carried, & < > ' " replaced by their entities, so that
\* no stored text field contains a raw < > ' or ".
C18_TextStoredEscaped ==
    \A i \in 1..Len(store) :
        LET cb == CbStored(store[i]) IN
        /\ EscapedFrom(store[i].MerchantRequestID, cb.MerchantRequestID)
        /\ EscapedFrom(store[i].CheckoutRequestID, cb.CheckoutRequestID)
        /\ EscapedFrom(store[i].ResultDesc, cb.ResultDesc)
        /\ EntriesOf(cb, "MpesaReceiptNumber") # {}
           => EscapedFrom(store[i].MpesaReceiptNumber, MetaValue(cb, "MpesaReceiptNumber"))
        /\ NoRawReserved(store[i].MerchantRequestID)
        /\ NoRawReserved(store[i].CheckoutRequestID)
        /\ NoRawReserved(store[i].ResultDesc)
        /\ NoRawReserved(store[i].MpesaReceiptNumber)
        /\ NoRawReserved(store[i].TransactionDate)
        /\ NoRawReserved(store[i].PhoneNumber)

----------------------------------------------------------------------------

\* C19: the success acknowledgment is sent only after the store write has
\* succeeded: whenever the gateway has been sent { ResultCode: 0,
\* ResultDesc: "Success" } for a callback, the store holds the record that
\* callback wrote, carrying its CheckoutRequestID and its ResultCode.
C19_AckAfterWrite ==
    \A r \in ReqIds :
        (IsCallback(r) /\ Acknowledged(r))
        => \E i \in WrittenBy(r) :
              /\ store[i].rawCallback = BodyOf(r)
              /\ NamesOutcome(r)
                 => /\ store[i].CheckoutRequestID = BodyOf(r).cb.CheckoutRequestID
                    /\ store[i].ResultCode = BodyOf(r).cb.ResultCode

\* one callback has been written and acknowledged while another, whose
\* write is still pending, has been sent nothing
C19_Witness ==
    \E r1 \in ReqIds : \E r2 \in ReqIds :
        /\ IsCallback(r1) /\ Acknowledged(r1) /\ NamesOutcome(r1) /\ WrittenBy(r1) # {}
        /\ IsCallback(r2) /\ reqs[r2].pc = "awaitSave" /\ resp[r2] = NoResp

----------------------------------------------------------------------------

\* the lifetime, in milliseconds, that goes with an answer of the exchange
LifetimeOf(answer) ==
    (IF answer.expires_in.t = "undef" THEN 3600 ELSE ToNumber(answer.expires_in)) * 1000

\* C20: the token cache is never torn: in every reachable state it is
\* empty, or its token and its expiresAt come from one answer of the
\* exchange, with expiresAt = the time at which the call that fetched the
\* token entered getAccessToken + the lifetime of that answer, which is
\* never later than the time the token really expires.
C20_CacheNeverTorn ==
    \/ tokenCache = [token |-> Null, expiresAt |-> 0]
    \/ \E k \in 1..Len(gateway.issued) :
          LET answer == gateway.issued[k] IN
          /\ tokenCache.token = answer.token
          /\ tokenCache.expiresAt = reqs[answer.req].now + LifetimeOf(answer)
          /\ tokenCache.expiresAt <= answer.at + LifetimeOf(answer)

\* two calls overlapped and were answered in the reverse of the order in
\* which they began, with different lifetimes: the cache holds the token
\* and the expiry of the call that began first and was answered last
C20_Witness ==
    \E r1 \in ReqIds : \E r2 \in ReqIds :
        /\ Len(gateway.issued) = 2
        /\ gateway.issued[1].req = r2 /\ gateway.issued[2].req = r1
        /\ reqs[r1].now < reqs[r2].now
        /\ gateway.issued[1].expires_in # gateway.issued[2].expires_in
        /\ tokenCache.token = gateway.issued[2].token
        /\ tokenCache.expiresAt < reqs[r2].now + LifetimeOf(gateway.issued[1])

====
